---- MODULE Spec2Model ----
(***************************************************************************)
(* Model of the segmented virtual-timeline playback engine of              *)
(* src/src/context/MediaPlayerContext.jsx (MediaPlayerProvider).           *)
(*                                                                         *)
(* The provider keeps three kinds of state:                                *)
(*   - the React state object (`state`), changed only by queued setState   *)
(*     updates (`pending`) that a later render commits, after which the    *)
(*     passive effects whose dependencies changed run (`effects`);         *)
(*   - the refs ("shadow" copies, `refs`), written synchronously;          *)
(*   - the single HTMLAudioElement (`audio`), with its registered          *)
(*     one-shot loadeddata listeners (`loadHandlers`), its pending play()  *)
(*     promises (`playPromises`, `rejected`) and the timers the code arms  *)
(*     with setTimeout (`timers`).                                         *)
(*                                                                         *)
(* Times are whole seconds.  Playback rates are scaled by 100 (0.25 is 25).*)
(* Media URLs are absolute, already serialized URLs, for which reading     *)
(* audio.src gives back the string that was assigned.                      *)
(* Playlists are named: the name stands for the identity of the array the  *)
(* caller passes, "none" for null.                                         *)
(***************************************************************************)
EXTENDS Integers, Sequences, FiniteSets, TLC

\* ---------------------------------------------------------------- bounds

\* User operations (calls of the public API) in one behaviour.
MaxOps == 2

\* User operations in one behaviour of the specifications that leave out
\* part of the public API.
MaxFamilyOps == 3

\* Longest queue a queue-mode loadPlaylist is tried on.
MaxQueue == 2

\* Longest playlist handed to buildSegmentMap on its own.
MaxLen == 3

\* ------------------------------------------------------------- constants

MinRate == 25
MaxRate == 200
DefaultRate == 100

\* undefined + seekOffset, the target time computed from a raw descriptor.
NaN == -1000

NoUrl == ""
NoPlaylist == "none"
NoError == "none"
LoadFailed == "Failed to load audio"
PlayFailed == "Failed to play audio"

\* ----------------------------------------------------------- input data

Urls == {"u1", "u2"}

\* Length in seconds of the media file behind each URL.
MediaDuration(url) == 3

Descriptor(url, ts) == [audioUrl |-> url, timestamps |-> ts]

\* The playlists callers pass: consecutive segments sharing a file and
\* changing file, a first segment that starts inside its file, a segment
\* without markers.
Playlists ==
  [P1 |-> << Descriptor("u1", <<0, 1, 2>>),
             Descriptor("u1", <<2, 3>>),
             Descriptor("u2", <<1, 2>>) >>,
   P2 |-> << Descriptor("u2", <<1, 3>>) >>,
   P3 |-> << Descriptor("u1", <<1, 2>>),
             Descriptor("u2", << >>) >>,
   P4 |-> << Descriptor("u1", <<2, 3>>),
             Descriptor("u1", <<0, 1>>),
             Descriptor("u1", <<1, 2>>) >>]

\* The playlists the operations draw from.  P4, whose first segment ends
\* with its file while the next one is in the same file, is played on its
\* own.
PlaylistIds == {"P1", "P2", "P3"}
BoundaryPlaylist == "P4"

\* playlistData as loadPlaylist receives it: a playlist, or an empty or
\* missing list.
EmptyList == "empty"
Entries(p) == IF p \in DOMAIN Playlists THEN Playlists[p] ELSE << >>

Min(a, b) == IF a < b THEN a ELSE b
Max(a, b) == IF a > b THEN a ELSE b

\* ------------------------------------------------------ buildSegmentMap

\* timestamps[0] || 0
StartTimestamp(ts) == IF Len(ts) = 0 \/ ts[1] = 0 THEN 0 ELSE ts[1]

\* timestamps[timestamps.length - 1] || startTimestamp
EndTimestamp(ts) ==
  IF Len(ts) = 0 \/ ts[Len(ts)] = 0 THEN StartTimestamp(ts) ELSE ts[Len(ts)]

\* A duration measured from the start of the file.
SegmentDurationFromZero(ts) == IF Len(ts) >= 2 THEN ts[Len(ts)] ELSE 0

SegmentDuration(ts) == IF Len(ts) >= 2 THEN ts[Len(ts)] - ts[1] ELSE 0

\* cumulativeTime carrying only the previous segment's duration.
CumulativeTimeNoCarry(playlist, i) ==
  IF i = 0 THEN 0 ELSE SegmentDuration(playlist[i].timestamps)

RECURSIVE CumulativeTime(_, _)
\* cumulativeTime when the map callback reaches 0-based index i.
CumulativeTime(playlist, i) ==
  IF i = 0 THEN 0
  ELSE CumulativeTime(playlist, i - 1) + SegmentDuration(playlist[i].timestamps)

EnhancedSegment(playlist, i) ==
  [audioUrl       |-> playlist[i + 1].audioUrl,
   timestamps     |-> playlist[i + 1].timestamps,
   index          |-> i,
   startTimestamp |-> StartTimestamp(playlist[i + 1].timestamps),
   endTimestamp   |-> EndTimestamp(playlist[i + 1].timestamps),
   duration       |-> SegmentDuration(playlist[i + 1].timestamps),
   virtualStart   |-> CumulativeTime(playlist, i),
   virtualEnd     |-> CumulativeTime(playlist, i)
                        + SegmentDuration(playlist[i + 1].timestamps)]

\* The segment map: a sequence whose element k + 1 is segment k.
buildSegmentMap(playlist) ==
  [k \in 1..Len(playlist) |-> EnhancedSegment(playlist, k - 1)]

TotalDurationOf(segmentMap) ==
  IF Len(segmentMap) > 0 THEN segmentMap[Len(segmentMap)].virtualEnd ELSE 0

\* ----------------------------------------------------------------- state

VARIABLES
  state,         \* the committed React state (useState, lines 12-26)
  pending,       \* the queued setState updates, merged, not yet committed
  effects,       \* the passive effects the last commit scheduled, not yet run
  refs,          \* the refs (lines 28-35)
  audio,         \* the HTMLAudioElement
  loadHandlers,  \* target times of the registered handleLoaded listeners
  playPromises,  \* pending play() promises whose callbacks change state
  rejected,      \* rejected play() promises whose catch has not yet run
  timers,        \* armed setTimeout callbacks
  playAllowed,   \* whether the runtime lets play() start playback
  scheduling,    \* "prompt": renders and effects run before the next task
  last,          \* the last user operation or playback event
  step,          \* what the last handler that ran did (for the properties)
  probe,         \* input and result of a pure function under test
  ops            \* user operations left

vars == << state, pending, effects, refs, audio, loadHandlers, playPromises,
           rejected, timers, playAllowed, scheduling, last, step, probe, ops >>

\* No queued update.
NoUpdates == [f \in {} |-> 0]

\* useState's initial value.  The fields `duration` and `isMinimized`, which
\* no playback decision reads, are left out.
InitialState ==
  [currentPlaylist     |-> NoPlaylist,
   queue               |-> << >>,
   isPlaying           |-> FALSE,
   isPaused            |-> FALSE,
   currentSegmentIndex |-> 0,
   currentTime         |-> 0,
   virtualTime         |-> 0,
   totalDuration       |-> 0,
   isLoading           |-> FALSE,
   error               |-> NoError,
   playbackRate        |-> DefaultRate]

\* The refs once the mount effects have run.
InitialRefs ==
  [currentSegment |-> 0,
   isSeeking      |-> FALSE,
   playlist       |-> NoPlaylist,
   queue          |-> << >>,
   segmentMap     |-> << >>,
   virtualTime    |-> 0,
   isPlaying      |-> FALSE]

\* new Audio(): no source, paused.  net is the load state of the element:
\* "empty", "loading", "loaded" (readyState >= 2) or "failed"; timeupdate
\* tells that the element has queued a timeupdate event (after a seek or a
\* pause) that is not yet delivered, ended that it has queued its ended
\* event, resolving the play() promises it has taken off its pending list
\* and queued the resolution of.
InitialAudio ==
  [src          |-> NoUrl,
   currentTime  |-> 0,
   paused       |-> TRUE,
   net          |-> "empty",
   playbackRate |-> DefaultRate,
   timeupdate   |-> FALSE,
   ended        |-> FALSE,
   resolving    |-> {}]

NoTimers == [autoPlay |-> FALSE, segPlay |-> FALSE, poll |-> FALSE, guard |-> 0]

Position(kind, at) == [kind |-> kind, at |-> at]
EndPosition == Position("end", 0)

Last(op) ==
  [op |-> op, playlist |-> NoPlaylist, n |-> 0, mode |-> "", autoPlay |-> FALSE,
   clearQueue |-> FALSE, position |-> EndPosition, intent |-> "none",
   loading |-> FALSE]

\* What a handler did: the loadSegmentAudio calls it made, the queued
\* playlist it activated, and whether the runtime refused a play request
\* it issued.
Step(handler, e) ==
  [handler |-> handler, calls |-> e.calls, activated |-> e.activated,
   refused |-> e.refused]

NoProbe == [kind |-> "none"]

InitEngine ==
  /\ state = InitialState
  /\ pending = NoUpdates
  /\ effects = {}
  /\ refs = InitialRefs
  /\ audio = InitialAudio
  /\ loadHandlers = << >>
  /\ playPromises = {}
  /\ rejected = {}
  /\ timers = NoTimers
  /\ playAllowed \in BOOLEAN
  /\ last = Last("mount")
  /\ step = [handler |-> "mount", calls |-> << >>, activated |-> NoPlaylist,
             refused |-> FALSE]

\* React renders the queued updates and runs the passive effects in tasks of
\* its own.  Under "prompt" scheduling those tasks run before any other task
\* (timer, resource event, user call); under "deferred" scheduling any task
\* may come first.
Init ==
  InitEngine /\ scheduling = "prompt" /\ ops = MaxOps /\ probe = NoProbe

InitFamily ==
  InitEngine /\ scheduling = "prompt" /\ ops = MaxFamilyOps /\ probe = NoProbe

InitDeferred ==
  InitEngine /\ scheduling = "deferred" /\ ops = MaxOps /\ probe = NoProbe

Flushed ==
  scheduling = "prompt" => (pending = NoUpdates /\ effects = {})

\* ------------------------------------------- the handler's working copy

\* Everything a handler can write, threaded through the calls it makes.
\* threw: an exception is propagating out of the handler.  micro: the
\* play() promises resolved while the handler ran, whose then-callbacks run
\* when it returns.  calls and activated record what the handler did.
Cur ==
  [pend |-> pending, refs |-> refs, audio |-> audio, lh |-> loadHandlers,
   pp |-> playPromises, rej |-> rejected, tm |-> timers, threw |-> FALSE,
   micro |-> {}, calls |-> << >>, activated |-> NoPlaylist,
   refused |-> FALSE]

\* setState(prev => ({...prev, ...updates})): later updates win field by field.
updateState(e, updates) == [e EXCEPT !.pend = updates @@ e.pend]

\* ------------------------------------------------------ HTMLAudioElement

\* Promises whose then-callback changes state: play() and the queue hand-over.
\* Those of tryPlay only log.
ThenKinds == {"play", "queue"}
\* Promises whose catch-callback changes state: play().
CatchKinds == {"play"}

Clamp(t, lo, hi) == Max(lo, Min(t, hi))

\* audio.pause(): the play() promises still pending are rejected; those
\* whose resolution is already queued resolve.
AudioPause(e) ==
  IF e.audio.paused THEN e
  ELSE [e EXCEPT !.audio.paused = TRUE,
                 !.audio.timeupdate = TRUE,
                 !.rej = e.rej \cup (e.pp \cap CatchKinds),
                 !.pp = {}]

HasEnded(a) == a.net = "loaded" /\ a.currentTime >= MediaDuration(a.src)

\* audio.play(): refused by the runtime or by a failed element (the promise
\* is rejected), otherwise the element leaves the paused state (restarting
\* from 0 when it had ended); with data to play the element queues the
\* resolution of the promise at once, without data the promise waits for it.
AudioPlay(e, kind, allowed) ==
  IF ~allowed \/ e.audio.net = "failed"
  THEN [e EXCEPT !.rej = e.rej \cup ({kind} \cap CatchKinds),
                 !.refused = e.refused \/ ~allowed]
  ELSE [e EXCEPT !.audio.paused = FALSE,
                 !.audio.currentTime =
                     IF HasEnded(e.audio) THEN 0 ELSE e.audio.currentTime,
                 !.audio.timeupdate = HasEnded(e.audio) \/ e.audio.timeupdate,
                 !.audio.resolving =
                     IF e.audio.net = "loaded"
                     THEN e.audio.resolving \cup ({kind} \cap ThenKinds)
                     ELSE e.audio.resolving,
                 !.pp = IF e.audio.net = "loaded" THEN e.pp
                        ELSE e.pp \cup ({kind} \cap ThenKinds)]

\* audio.src = url; audio.load(): the element is reset and starts loading.
\* The pending play() promises are rejected; those whose resolution was
\* queued resolve at once.
AudioLoad(e, url) ==
  [e EXCEPT !.audio = [src |-> url, currentTime |-> 0, paused |-> TRUE,
                       net |-> "loading", playbackRate |-> DefaultRate,
                       timeupdate |-> FALSE, ended |-> FALSE,
                       resolving |-> {}],
            !.micro = e.micro \cup e.audio.resolving,
            !.rej = e.rej \cup (e.pp \cap CatchKinds),
            !.pp = {}]

\* audio.currentTime = t: a non-finite value throws, a finite one is clamped
\* to the media.
AudioSetCurrentTime(e, t) ==
  IF t = NaN THEN [e EXCEPT !.threw = TRUE]
  ELSE [e EXCEPT !.audio.currentTime = Clamp(t, 0, MediaDuration(e.audio.src)),
                 !.audio.timeupdate = TRUE]

\* ----------------------------------------------------- loadSegmentAudio

\* Every segment change reloads the file.
alwaysNewFile(src, audioUrl) == TRUE

\* const needsNewFile = audio.src !== segment.audioUrl
needsNewFile(src, audioUrl) == src # audioUrl

\* The record of one loadSegmentAudio call: the file asked for, the file the
\* element held, whether a load was issued, the target time, and the
\* element's position when the call returns.
Call(e, audioUrl, targetTime, loaded, after) ==
  [audioUrl |-> audioUrl, src |-> e.audio.src, loaded |-> loaded,
   targetTime |-> targetTime, position |-> after.audio.currentTime]

\* The body of loadSegmentAudio once the segment is resolved.
loadSegmentAudio(e, audioUrl, targetTime) ==
  IF needsNewFile(e.audio.src, audioUrl)
  THEN LET e1 == AudioLoad(updateState(e, [isLoading |-> TRUE]), audioUrl)
       IN  [e1 EXCEPT !.lh = Append(e1.lh, targetTime),
                      !.calls = Append(e1.calls,
                                  Call(e, audioUrl, targetTime, TRUE, e1))]
  ELSE LET e1 == AudioSetCurrentTime(e, targetTime)
       IN  [e1 EXCEPT !.calls = Append(e1.calls,
                                  Call(e, audioUrl, targetTime, FALSE, e1))]

\* loadSegmentAudio(index, seekOffset): the segment comes from the map.
loadSegmentAudioIndex(e, index, seekOffset) ==
  IF index < 0 \/ index >= Len(e.refs.segmentMap) THEN e
  ELSE LET segment == e.refs.segmentMap[index + 1]
       IN  loadSegmentAudio(e, segment.audioUrl,
                            segment.startTimestamp + seekOffset)

\* loadSegmentAudio(descriptor): a raw descriptor has no startTimestamp.
loadSegmentAudioRaw(e, descriptor) ==
  loadSegmentAudio(e, descriptor.audioUrl, NaN)

\* ------------------------------------------------------------- handlers

\* A virtual time that runs from the segment's end towards its start.
calculateVirtualTimeReversed(e) ==
  LET segmentMap == e.refs.segmentMap
      currentIndex == e.refs.currentSegment
  IN  IF Len(segmentMap) = 0 \/ currentIndex >= Len(segmentMap) THEN 0
      ELSE Max(0, segmentMap[currentIndex + 1].virtualEnd
                    - (e.audio.currentTime
                         - segmentMap[currentIndex + 1].startTimestamp))

calculateVirtualTime(e) ==
  LET segmentMap == e.refs.segmentMap
      currentIndex == e.refs.currentSegment
  IN  IF Len(segmentMap) = 0 \/ currentIndex >= Len(segmentMap) THEN 0
      ELSE Max(0, segmentMap[currentIndex + 1].virtualStart
                    + (e.audio.currentTime
                         - segmentMap[currentIndex + 1].startTimestamp))

\* The queue entry handlePlaylistEnd takes, and what it leaves.
DequeueNext(queue) == queue[1]
RemainingQueue(queue) == SubSeq(queue, 2, Len(queue))

handlePlaylistEnd(e, allowed) ==
  LET e1 == updateState(e, [isPlaying |-> FALSE, isPaused |-> FALSE])
      queue == e.refs.queue
  IN  IF Len(queue) > 0
      THEN LET nextPlaylist == DequeueNext(queue)
               e2 == updateState([e1 EXCEPT !.activated = nextPlaylist],
                                 [currentPlaylist |-> nextPlaylist,
                                  queue |-> RemainingQueue(queue),
                                  currentSegmentIndex |-> 0,
                                  currentTime |-> 0])
           IN  IF Len(Entries(nextPlaylist)) > 0
               THEN LET e3 == loadSegmentAudioRaw(e2, Entries(nextPlaylist)[1])
                    IN  IF e3.threw THEN e3
                        ELSE AudioPlay(e3, "queue", allowed)
               ELSE e2
      ELSE e1

handleSegmentEnd(e, allowed) ==
  LET segmentMap == e.refs.segmentMap
      nextIndex == e.refs.currentSegment + 1
      wasPlaying == e.refs.isPlaying
  IN  IF Len(segmentMap) = 0 THEN e
      ELSE IF nextIndex < Len(segmentMap)
      THEN LET e1 == updateState(AudioPause(e),
                                 [currentSegmentIndex |-> nextIndex])
               e2 == loadSegmentAudioIndex(e1, nextIndex, 0)
           IN  IF wasPlaying THEN [e2 EXCEPT !.tm.poll = TRUE] ELSE e2
      ELSE handlePlaylistEnd(AudioPause(e), allowed)

\* Whether the time-advance handler finds the active segment at its end.
SegmentEndReached(e) ==
  /\ Len(e.refs.segmentMap) > 0
  /\ e.refs.currentSegment < Len(e.refs.segmentMap)
  /\ e.audio.currentTime
       >= e.refs.segmentMap[e.refs.currentSegment + 1].endTimestamp

handleTimeUpdate(e, allowed) ==
  IF e.refs.isSeeking THEN e
  ELSE LET virtualTime == calculateVirtualTime(e)
           e1 == updateState(e, [currentTime |-> e.audio.currentTime,
                                 virtualTime |-> virtualTime])
           e2 == [e1 EXCEPT !.refs.virtualTime = virtualTime]
       IN  IF SegmentEndReached(e2) THEN handleSegmentEnd(e2, allowed) ELSE e2

handleEnded(e, allowed) == handleSegmentEnd(e, allowed)

\* An error handler that also rewinds the player.
handleErrorRewinding(e) ==
  updateState(e, [isLoading |-> FALSE, error |-> LoadFailed,
                  isPlaying |-> FALSE, currentSegmentIndex |-> 0,
                  virtualTime |-> 0])

handleError(e) ==
  updateState(e, [isLoading |-> FALSE, error |-> LoadFailed,
                  isPlaying |-> FALSE])

handleCanPlay(e) == updateState(e, [isLoading |-> FALSE])

\* An exception leaves the listener; the next listener starts clean.
Caught(e) == [e EXCEPT !.threw = FALSE]

\* ---------------------------------------------------- public operations

\* Array.prototype.splice(position, 0, item): a position past the end
\* appends, a negative one counts from the end.
SpliceIndex(len, position) ==
  IF position < 0 THEN Max(len + position, 0) ELSE Min(position, len)

\* splice inserting one place too far.
InsertAfter(queue, position, item) ==
  LET k == Min(SpliceIndex(Len(queue), position) + 1, Len(queue))
  IN  SubSeq(queue, 1, k) \o << item >> \o SubSeq(queue, k + 1, Len(queue))

InsertAt(queue, position, item) ==
  LET k == SpliceIndex(Len(queue), position)
  IN  SubSeq(queue, 1, k) \o << item >> \o SubSeq(queue, k + 1, Len(queue))

\* Array.prototype.splice(index, 1)
RemoveAt(queue, index) ==
  LET k == SpliceIndex(Len(queue), index)
  IN  SubSeq(queue, 1, k) \o SubSeq(queue, k + 2, Len(queue))

\* The queue a queue-mode loadPlaylist builds.
NewQueue(queue, playlistData, clearQueue, position) ==
  LET newQueue == IF clearQueue THEN << playlistData >> ELSE queue
  IN  IF position.kind = "start" THEN << playlistData >> \o newQueue
      ELSE IF position.kind = "index"
      THEN InsertAt(newQueue, position.at, playlistData)
      ELSE Append(newQueue, playlistData)

\* The queue a replace-mode loadPlaylist commits.
ReplaceQueue(clearQueue) == IF clearQueue THEN << >> ELSE state.queue

\* The emptiness check left out.
NeverEmptyInput(playlistData) == FALSE

\* !playlistData || !playlistData.length
IsEmptyInput(playlistData) == Len(Entries(playlistData)) = 0

loadPlaylist(e, playlistData, mode, autoPlay, clearQueue, position) ==
  IF IsEmptyInput(playlistData) THEN e
  ELSE IF mode = "queue"
  THEN updateState(e, [queue |-> NewQueue(e.refs.queue, playlistData,
                                          clearQueue, position)])
  ELSE LET segmentMap == buildSegmentMap(Entries(playlistData))
           e1 == [AudioPause(e) EXCEPT !.refs.segmentMap = segmentMap]
           e2 == updateState(e1,
                   [currentPlaylist     |-> playlistData,
                    currentSegmentIndex |-> 0,
                    currentTime         |-> 0,
                    virtualTime         |-> 0,
                    totalDuration       |-> TotalDurationOf(segmentMap),
                    isPlaying           |-> FALSE,
                    isPaused            |-> FALSE,
                    error               |-> NoError,
                    queue               |-> ReplaceQueue(clearQueue)])
           e3 == loadSegmentAudioIndex(e2, 0, 0)
       IN  IF autoPlay THEN [e3 EXCEPT !.tm.autoPlay = TRUE] ELSE e3

play(e, allowed) == AudioPlay(e, "play", allowed)

\* play()'s then-callback.
PlayStarted(e) ==
  updateState([e EXCEPT !.refs.isPlaying = TRUE],
              [isPlaying |-> TRUE, isPaused |-> FALSE, error |-> NoError])

\* play()'s catch-callback.
PlayRefused(e) == updateState(e, [error |-> PlayFailed])

\* The then-callback of the queued playlist's play request.
QueuePlayStarted(e) == updateState(e, [isPlaying |-> TRUE])

\* The then-callbacks of the play() promises in kinds.
ThenCallbacks(e, kinds) ==
  LET e1 == IF "play" \in kinds THEN PlayStarted(e) ELSE e
  IN  IF "queue" \in kinds THEN QueuePlayStarted(e1) ELSE e1

\* A handler returns: the then-callbacks of the promises resolved while it
\* ran run, and what it and they wrote is the new state.
Apply(e) ==
  LET f == ThenCallbacks(e, e.micro)
  IN  /\ pending' = f.pend
      /\ refs' = f.refs
      /\ audio' = f.audio
      /\ loadHandlers' = f.lh
      /\ playPromises' = f.pp
      /\ rejected' = f.rej
      /\ timers' = f.tm

\* pause() also clearing the error.
pauseClearingError(e) ==
  updateState([AudioPause(e) EXCEPT !.refs.isPlaying = FALSE],
              [isPlaying |-> FALSE, isPaused |-> TRUE, error |-> NoError])

pause(e) ==
  updateState([AudioPause(e) EXCEPT !.refs.isPlaying = FALSE],
              [isPlaying |-> FALSE, isPaused |-> TRUE])

stop(e) ==
  LET e1 == [AudioPause(e) EXCEPT !.refs.isPlaying = FALSE]
      e2 == IF Len(e1.refs.segmentMap) > 0
            THEN loadSegmentAudioIndex(e1, 0, 0) ELSE e1
  IN  updateState(e2, [isPlaying |-> FALSE, isPaused |-> FALSE,
                       currentSegmentIndex |-> 0, currentTime |-> 0,
                       virtualTime |-> 0])

togglePlayPause(e, allowed) ==
  IF state.isPlaying THEN pause(e) ELSE play(e, allowed)

\* The segments whose [virtualStart, virtualEnd] contains the target.
Containing(segmentMap, virtualTime) ==
  {i \in 0..(Len(segmentMap) - 1) :
     /\ virtualTime >= segmentMap[i + 1].virtualStart
     /\ virtualTime <= segmentMap[i + 1].virtualEnd}

SetMin(S) == CHOOSE x \in S : \A y \in S : x <= y

\* seekTo's target segment: the first one containing the target, else the
\* first segment for a negative target and the last one otherwise.
TargetIndex(segmentMap, virtualTime) ==
  IF Containing(segmentMap, virtualTime) # {}
  THEN SetMin(Containing(segmentMap, virtualTime))
  ELSE IF virtualTime < 0 THEN 0 ELSE Len(segmentMap) - 1

seekTo(e, virtualTime, allowed) ==
  LET segmentMap == e.refs.segmentMap
  IN  IF Len(segmentMap) = 0 THEN e
      ELSE
        LET wasPlaying == e.refs.isPlaying
            targetIndex == TargetIndex(segmentMap, virtualTime)
            targetSegment == segmentMap[targetIndex + 1]
            offsetInSegment == virtualTime - targetSegment.virtualStart
            e0 == [e EXCEPT !.refs.isSeeking = TRUE]
            e4 ==
              IF targetIndex # e.refs.currentSegment
              THEN LET e1 == updateState(AudioPause(e0),
                               [currentSegmentIndex |-> targetIndex,
                                virtualTime |-> virtualTime])
                       e2 == loadSegmentAudioIndex(e1, targetIndex,
                                                   offsetInSegment)
                   IN  IF wasPlaying THEN [e2 EXCEPT !.tm.poll = TRUE] ELSE e2
              ELSE LET e1 == AudioSetCurrentTime(e0,
                               targetSegment.startTimestamp + offsetInSegment)
                       e2 == updateState(e1, [virtualTime |-> virtualTime])
                       e3 == [e2 EXCEPT !.refs.virtualTime = virtualTime]
                   IN  IF wasPlaying /\ e3.audio.paused
                       THEN AudioPlay(e3, "resume", allowed) ELSE e3
        IN  [e4 EXCEPT !.tm.guard = e4.tm.guard + 1]

\* playSegment without its bounds check.
playSegmentUnchecked(e, index) ==
  LET e1 == updateState(e, [currentSegmentIndex |-> index])
      e2 == loadSegmentAudioIndex(e1, index, 0)
  IN  IF state.isPlaying THEN [e2 EXCEPT !.tm.segPlay = TRUE] ELSE e2

playSegment(e, index) ==
  IF index < 0 \/ index >= Len(e.refs.segmentMap) THEN e
  ELSE LET e1 == updateState(e, [currentSegmentIndex |-> index])
           e2 == loadSegmentAudioIndex(e1, index, 0)
       IN  IF state.isPlaying THEN [e2 EXCEPT !.tm.segPlay = TRUE] ELSE e2

nextSegment(e) ==
  IF \/ state.currentPlaylist = NoPlaylist
     \/ state.currentSegmentIndex + 1 >= Len(Entries(state.currentPlaylist))
  THEN e
  ELSE playSegment(e, state.currentSegmentIndex + 1)

previousSegment(e) ==
  IF state.currentSegmentIndex - 1 < 0 THEN e
  ELSE playSegment(e, state.currentSegmentIndex - 1)

\* setPlaybackRate without its range check.
setPlaybackRateUnguarded(e, rate) == updateState(e, [playbackRate |-> rate])

setPlaybackRate(e, rate) ==
  IF rate < MinRate \/ rate > MaxRate THEN e
  ELSE updateState(e, [playbackRate |-> rate])

clearQueue(e) == updateState(e, [queue |-> << >>])

removeFromQueue(e, index) ==
  updateState(e, [queue |-> RemoveAt(state.queue, index)])

\* ------------------------------------------------------ React's commit

\* The passive effects whose dependencies differ between two renders.
ChangedEffects(old, new) ==
  (IF old.playbackRate # new.playbackRate THEN {"rate"} ELSE {})
  \cup (IF \/ old.currentPlaylist # new.currentPlaylist
           \/ old.currentSegmentIndex # new.currentSegmentIndex
        THEN {"sync"} ELSE {})
  \cup (IF old.queue # new.queue THEN {"queue"} ELSE {})

\* A render commits the queued updates and schedules the effects.
Commit ==
  /\ pending # NoUpdates
  /\ effects = {}
  /\ state' = pending @@ state
  /\ pending' = NoUpdates
  /\ effects' = ChangedEffects(state, pending @@ state)
  /\ UNCHANGED << refs, audio, loadHandlers, playPromises, rejected, timers,
                  playAllowed, scheduling, last, step, probe, ops >>

\* useEffect [state.playbackRate]
RateEffect(e) ==
  IF "rate" \in effects
  THEN [e EXCEPT !.audio.playbackRate = state.playbackRate] ELSE e

\* A sync effect that rebuilds the shadow map and leaves totalDuration alone.
SyncEffectMapOnly(e) ==
  IF "sync" \notin effects THEN e
  ELSE LET e1 == [e EXCEPT !.refs.playlist = state.currentPlaylist,
                           !.refs.currentSegment = state.currentSegmentIndex]
       IN  IF state.currentPlaylist = NoPlaylist THEN e1
           ELSE [e1 EXCEPT !.refs.segmentMap =
                             buildSegmentMap(Entries(state.currentPlaylist))]

\* useEffect [state.currentPlaylist, state.currentSegmentIndex]
SyncEffect(e) ==
  IF "sync" \notin effects THEN e
  ELSE LET e1 == [e EXCEPT !.refs.playlist = state.currentPlaylist,
                           !.refs.currentSegment = state.currentSegmentIndex]
       IN  IF state.currentPlaylist = NoPlaylist THEN e1
           ELSE LET segmentMap ==
                      buildSegmentMap(Entries(state.currentPlaylist))
                IN  updateState([e1 EXCEPT !.refs.segmentMap = segmentMap],
                                [totalDuration |-> TotalDurationOf(segmentMap)])

\* useEffect [state.queue]
QueueEffect(e) ==
  IF "queue" \in effects THEN [e EXCEPT !.refs.queue = state.queue] ELSE e

RunEffects ==
  /\ effects # {}
  /\ effects' = {}
  /\ Apply(QueueEffect(SyncEffect(RateEffect(Cur))))
  /\ UNCHANGED << state, playAllowed, scheduling, last, step, probe, ops >>

\* --------------------------------------------------- user operations

SeekTargets == -1..5
SegmentIndexes == -1..3
Rates == {10, 25, 150, 200, 300}
Positions ==
  {Position("start", 0), EndPosition}
    \cup {Position("index", k) : k \in 0..MaxQueue}

\* What the engine is doing when a public operation is called: "playing"
\* when it reports playing and the resource runs, "idle" when it does not
\* report playing and the resource is paused.
Intent ==
  IF state.isPlaying /\ ~audio.paused THEN "playing"
  ELSE IF ~state.isPlaying /\ audio.paused THEN "idle" ELSE "mixed"

\* One call of the public API: the handler runs to completion.  last
\* remembers the call, what the engine was doing when it was made, and
\* whether a load was still under way.
UserOp(lastValue, e) ==
  /\ Flushed
  /\ ops > 0
  /\ ops' = ops - 1
  /\ last' = [lastValue EXCEPT !.intent = Intent,
                                !.loading = (audio.net = "loading")]
  /\ step' = Step(lastValue.op, e)
  /\ Apply(e)
  /\ UNCHANGED << state, effects, playAllowed, scheduling, probe >>

LoadPlaylistReplace ==
  \E p \in PlaylistIds \cup {EmptyList}, autoPlay \in BOOLEAN,
     clear \in BOOLEAN :
    UserOp([Last("loadPlaylist") EXCEPT !.playlist = p, !.mode = "replace",
              !.autoPlay = autoPlay, !.clearQueue = clear],
           loadPlaylist(Cur, p, "replace", autoPlay, clear, EndPosition))

LoadPlaylistQueue ==
  \E p \in PlaylistIds \cup {EmptyList}, clear \in BOOLEAN,
     position \in Positions :
    /\ Len(refs.queue) <= MaxQueue
    /\ UserOp([Last("loadPlaylist") EXCEPT !.playlist = p, !.mode = "queue",
                 !.clearQueue = clear, !.position = position],
              loadPlaylist(Cur, p, "queue", FALSE, clear, position))

Play == UserOp(Last("play"), play(Cur, playAllowed))

Pause == UserOp(Last("pause"), pause(Cur))

Stop == UserOp(Last("stop"), stop(Cur))

TogglePlayPause ==
  UserOp(Last("togglePlayPause"), togglePlayPause(Cur, playAllowed))

SeekTo ==
  \E v \in SeekTargets :
    UserOp([Last("seekTo") EXCEPT !.n = v], seekTo(Cur, v, playAllowed))

PlaySegment ==
  \E i \in SegmentIndexes :
    UserOp([Last("playSegment") EXCEPT !.n = i], playSegment(Cur, i))

NextSegment == UserOp(Last("nextSegment"), nextSegment(Cur))

PreviousSegment == UserOp(Last("previousSegment"), previousSegment(Cur))

SetPlaybackRate ==
  \E r \in Rates :
    UserOp([Last("setPlaybackRate") EXCEPT !.n = r], setPlaybackRate(Cur, r))

ClearQueue == UserOp(Last("clearQueue"), clearQueue(Cur))

RemoveFromQueue ==
  \E i \in 0..MaxQueue :
    UserOp([Last("removeFromQueue") EXCEPT !.n = i], removeFromQueue(Cur, i))

\* ------------------------------------------------------ resource events

\* A playback event; last remembers the queued playlist its handlers
\* activated.
Event(lastValue, e) ==
  /\ Flushed
  /\ last' = [lastValue EXCEPT !.playlist = e.activated]
  /\ step' = Step(lastValue.op, e)
  /\ Apply(e)
  /\ UNCHANGED << state, effects, playAllowed, scheduling, probe, ops >>

\* A step that completes an operation already under way.
Completion(handler, e) ==
  /\ Flushed
  /\ step' = Step(handler, e)
  /\ Apply(e)
  /\ UNCHANGED << state, effects, playAllowed, scheduling, last, probe, ops >>

RECURSIVE RunLoadHandlers(_, _)
\* The handleLoaded listeners in registration order: each positions the
\* element; one whose target is not finite throws before it unregisters.
RunLoadHandlers(e, handlers) ==
  IF handlers = << >> THEN e
  ELSE RunLoadHandlers(Caught(AudioSetCurrentTime(e, Head(handlers))),
                       Tail(handlers))

StuckHandlers(handlers) == SelectSeq(handlers, LAMBDA t : t = NaN)

\* loadeddata, then canplay: the file in audio.src is ready.  An element
\* that is not paused queues the resolution of its pending play() promises.
LoadedData ==
  /\ audio.net = "loading"
  /\ LET e1 == IF audio.paused
               THEN [Cur EXCEPT !.audio.net = "loaded"]
               ELSE [Cur EXCEPT !.audio.net = "loaded",
                                !.audio.resolving =
                                    audio.resolving \cup playPromises,
                                !.pp = {}]
         e2 == RunLoadHandlers(e1, loadHandlers)
         e3 == [e2 EXCEPT !.lh = StuckHandlers(loadHandlers)]
     IN  Completion("loadeddata", handleCanPlay(e3))

\* error: the file in audio.src could not be loaded.
LoadError ==
  /\ audio.net = "loading"
  /\ LET e1 == [Cur EXCEPT !.audio.net = "failed",
                           !.rej = rejected \cup (playPromises \cap CatchKinds),
                           !.pp = {}]
     IN  Event(Last("error"), handleError(e1))

\* The queued resolution of play() promises is delivered: their
\* then-callbacks run.
PlayResolved ==
  /\ audio.resolving # {}
  /\ Completion("playing",
                ThenCallbacks([Cur EXCEPT !.audio.resolving = {}],
                              audio.resolving))

\* The catch-callback of a rejected play() promise runs.
PlayRejected ==
  /\ rejected # {}
  /\ Completion("playRejected", PlayRefused([Cur EXCEPT !.rej = {}]))

\* The queued timeupdate (after a seek or a pause) is delivered.
TimeUpdate ==
  /\ audio.net = "loaded"
  /\ audio.timeupdate
  /\ Completion("timeupdate",
                handleTimeUpdate([Cur EXCEPT !.audio.timeupdate = FALSE],
                                 playAllowed))

\* Playback advances by one second: timeupdate, queued behind the
\* resolution of play() promises the element had queued.  At the end of the
\* file the element has queued its ended event along with the timeupdate; a
\* load the timeupdate listener starts removes it.
TimeAdvance ==
  /\ audio.net = "loaded"
  /\ ~audio.paused
  /\ ~audio.ended
  /\ audio.resolving = {}
  /\ audio.currentTime < MediaDuration(audio.src)
  /\ LET e1 == [Cur EXCEPT !.audio.currentTime = audio.currentTime + 1,
                           !.audio.timeupdate = FALSE]
         e2 == Caught(handleTimeUpdate(e1, playAllowed))
     IN  IF audio.currentTime + 1 < MediaDuration(audio.src)
            \/ e2.audio.net # "loaded"
         THEN Event(Last("timeadvance"), e2)
         ELSE Event(Last("timeadvance"), [e2 EXCEPT !.audio.ended = TRUE])

\* The queued ended event is delivered, before or after the render of what
\* the timeupdate listener changed: the element pauses itself if it is still
\* at the end of the file, then the ended listener runs.
Ended ==
  /\ audio.net = "loaded"
  /\ audio.ended
  /\ LET e1 == [Cur EXCEPT !.audio.ended = FALSE]
         e2 == IF HasEnded(e1.audio) /\ ~e1.audio.paused
               THEN [e1 EXCEPT !.audio.paused = TRUE] ELSE e1
         e3 == Caught(handleEnded(e2, playAllowed))
     IN  /\ last' = [Last("ended") EXCEPT !.playlist = e3.activated]
         /\ step' = Step("ended", e3)
         /\ Apply(e3)
         /\ UNCHANGED << state, effects, playAllowed, scheduling, probe, ops >>

\* An event the element has already queued comes before a timer.
NoQueuedEvent == ~(audio.net = "loaded" /\ (audio.timeupdate \/ audio.ended))

\* setTimeout(() => play(), 100) of loadPlaylist.
AutoPlayTimer ==
  /\ timers.autoPlay
  /\ NoQueuedEvent
  /\ Completion("autoPlayTimer",
                play([Cur EXCEPT !.tm.autoPlay = FALSE], playAllowed))

\* setTimeout(() => play(), 50) of playSegment.
SegPlayTimer ==
  /\ timers.segPlay
  /\ NoQueuedEvent
  /\ Completion("segPlayTimer",
                play([Cur EXCEPT !.tm.segPlay = FALSE], playAllowed))

\* tryPlay of handleSegmentEnd and of seekTo: play once the element has
\* data, else poll again.
tryPlay(e, allowed) ==
  IF e.audio.net = "loaded"
  THEN AudioPlay([e EXCEPT !.tm.poll = FALSE], "resume", allowed)
  ELSE e

PollTimer ==
  /\ timers.poll
  /\ NoQueuedEvent
  /\ Completion("tryPlay", tryPlay(Cur, playAllowed))

\* setTimeout(() => { isSeekingRef.current = false }, 200) of seekTo.
GuardTimer ==
  /\ timers.guard > 0
  /\ NoQueuedEvent \/ timers.guard > 1
  /\ Completion("guardTimer",
                [Cur EXCEPT !.refs.isSeeking = FALSE,
                            !.tm.guard = timers.guard - 1])

\* Renders, resource events and the timers of loadPlaylist and of the
\* segment-end handler.
Playback ==
  \/ Commit
  \/ RunEffects
  \/ LoadedData
  \/ LoadError
  \/ PlayResolved
  \/ PlayRejected
  \/ TimeUpdate
  \/ TimeAdvance
  \/ Ended
  \/ AutoPlayTimer
  \/ PollTimer

\* Playback and the timers of playSegment and seekTo.
Environment ==
  \/ Playback
  \/ SegPlayTimer
  \/ GuardTimer

Next ==
  \/ LoadPlaylistReplace
  \/ LoadPlaylistQueue
  \/ Play
  \/ Pause
  \/ Stop
  \/ TogglePlayPause
  \/ SeekTo
  \/ PlaySegment
  \/ NextSegment
  \/ PreviousSegment
  \/ SetPlaybackRate
  \/ ClearQueue
  \/ RemoveFromQueue
  \/ Environment

Spec == Init /\ [][Next]_vars

SpecDeferred == InitDeferred /\ [][Next]_vars

\* Loading and queueing playlists.
NextQueue ==
  \/ LoadPlaylistReplace
  \/ LoadPlaylistQueue
  \/ ClearQueue
  \/ RemoveFromQueue
  \/ Playback

SpecQueue == InitFamily /\ [][NextQueue]_vars

\* loadPlaylist(P4, {mode: "replace", autoPlay: true})
LoadPlaylistBoundary ==
  UserOp([Last("loadPlaylist") EXCEPT !.playlist = BoundaryPlaylist,
            !.mode = "replace", !.autoPlay = TRUE],
         loadPlaylist(Cur, BoundaryPlaylist, "replace", TRUE, FALSE,
                      EndPosition))

\* Playing a playlist whose segment boundary is the end of the file.
NextBoundary ==
  \/ LoadPlaylistBoundary
  \/ Play
  \/ Pause
  \/ Playback

SpecBoundary == Init /\ [][NextBoundary]_vars

\* The same playlist with the choice of a segment, when renders and effects
\* may come after other tasks.
NextRace ==
  \/ LoadPlaylistBoundary
  \/ PlaySegment
  \/ Playback

SpecRace == InitDeferred /\ [][NextRace]_vars

\* Loading and queueing playlists, and pausing.
NextHandOver ==
  \/ LoadPlaylistReplace
  \/ LoadPlaylistQueue
  \/ Pause
  \/ Playback

SpecHandOver == InitFamily /\ [][NextHandOver]_vars

\* Loading a playlist and the transport controls.
NextControl ==
  \/ LoadPlaylistReplace
  \/ Play
  \/ Pause
  \/ Stop
  \/ TogglePlayPause
  \/ Playback

SpecControl == InitFamily /\ [][NextControl]_vars

\* Loading a playlist, starting it and moving in it.
NextSeek ==
  \/ LoadPlaylistReplace
  \/ Play
  \/ SeekTo
  \/ PlaySegment
  \/ NextSegment
  \/ PreviousSegment
  \/ Environment

SpecSeek == InitFamily /\ [][NextSeek]_vars

\* ------------------------------------------ a play policy that changes

\* The runtime's play policy changes: it starts or stops refusing play
\* requests.
PolicyChange ==
  /\ Flushed
  /\ playAllowed' = ~playAllowed
  /\ UNCHANGED << state, pending, effects, refs, audio, loadHandlers,
                  playPromises, rejected, timers, scheduling, last, step,
                  probe, ops >>

\* Playing and seeking under a play policy that changes.
NextPolicy ==
  \/ LoadPlaylistReplace
  \/ Play
  \/ SeekTo
  \/ Playback
  \/ GuardTimer
  \/ PolicyChange

SpecPolicy == Init /\ [][NextPolicy]_vars

\* ------------------------------------------------ the engine left to run

\* Loading a playlist, starting it and seeking in it.
NextWait ==
  \/ LoadPlaylistReplace
  \/ Play
  \/ SeekTo
  \/ Playback
  \/ GuardTimer

\* What the runtime guarantees: a scheduled render and its effects run, a
\* timer that is due fires, a queued resource event is delivered, a pending
\* play() promise settles, and a load under way ends in loadeddata or in
\* error.
Runs ==
  /\ WF_vars(Commit)
  /\ WF_vars(RunEffects)
  /\ WF_vars(LoadedData \/ LoadError)
  /\ WF_vars(PlayResolved)
  /\ WF_vars(PlayRejected)
  /\ WF_vars(TimeUpdate)
  /\ WF_vars(Ended)
  /\ WF_vars(AutoPlayTimer)
  /\ WF_vars(PollTimer)
  /\ WF_vars(GuardTimer)

SpecWait == Init /\ [][NextWait]_vars /\ Runs

\* --------------------------------------- a playlist played without a user

\* loadPlaylist(p, {mode: "queue", ...}) before any playlist is loaded.
QueueFirst == state.currentPlaylist = NoPlaylist /\ LoadPlaylistQueue

\* loadPlaylist(p, {mode: "replace", autoPlay: true}), the one call that
\* starts playback.
LoadPlaylistAuto ==
  /\ state.currentPlaylist = NoPlaylist
  /\ \E p \in PlaylistIds \cup {BoundaryPlaylist} :
       UserOp([Last("loadPlaylist") EXCEPT !.playlist = p, !.mode = "replace",
                 !.autoPlay = TRUE],
              loadPlaylist(Cur, p, "replace", TRUE, FALSE, EndPosition))

\* Playlists are queued, one is loaded with autoPlay, and playback runs with
\* no further call, no load error and no refused play request.
NextProgress ==
  \/ QueueFirst
  \/ LoadPlaylistAuto
  \/ Commit
  \/ RunEffects
  \/ LoadedData
  \/ PlayResolved
  \/ TimeUpdate
  \/ TimeAdvance
  \/ Ended
  \/ AutoPlayTimer
  \/ PollTimer

InitProgress == InitFamily /\ playAllowed = TRUE

\* When TimeAdvance, TimeUpdate and Ended can happen: their guards.  Each of
\* the three changes the resource whenever it happens.
TimeCanAdvance ==
  /\ Flushed
  /\ audio.net = "loaded"
  /\ ~audio.paused
  /\ ~audio.ended
  /\ audio.resolving = {}
  /\ audio.currentTime < MediaDuration(audio.src)

TimeUpdateQueued == Flushed /\ audio.net = "loaded" /\ audio.timeupdate

EndedQueued == audio.net = "loaded" /\ audio.ended

\* What the runtime guarantees: renders and effects run, a load under way
\* completes, a queued resolution or resource event is delivered, a timer
\* that is due fires, and a resource that plays advances.  The last three
\* conjuncts are the weak fairness of TimeAdvance, TimeUpdate and Ended with
\* the enabling condition written out.
Progresses ==
  /\ WF_vars(Commit)
  /\ WF_vars(RunEffects)
  /\ WF_vars(LoadedData)
  /\ WF_vars(PlayResolved)
  /\ WF_vars(AutoPlayTimer)
  /\ WF_vars(PollTimer)
  /\ ([]<>~TimeCanAdvance \/ []<><<TimeAdvance>>_vars)
  /\ ([]<>~TimeUpdateQueued \/ []<><<TimeUpdate>>_vars)
  /\ ([]<>~EndedQueued \/ []<><<Ended>>_vars)

SpecProgress == InitProgress /\ [][NextProgress]_vars /\ Progresses

\* ------------------------------------------- buildSegmentMap on its own

\* Marker lists of a descriptor: none, one, several, starting at 0, and out
\* of order.
MarkerLists == {<< >>, <<2>>, <<0, 2>>, <<1, 3>>, <<1, 2, 4>>, <<3, 1>>}

MapInputs ==
  UNION {[1..n -> {Descriptor(u, ts) : u \in Urls, ts \in MarkerLists}] :
           n \in 1..MaxLen}

InitMap ==
  /\ InitEngine
  /\ scheduling = "prompt"
  /\ ops = 0
  /\ \E playlist \in MapInputs :
       probe = [kind |-> "input", playlist |-> playlist, segmentMap |-> << >>]

\* buildSegmentMap(playlist)
BuildMap ==
  /\ probe.kind = "input"
  /\ probe' = [kind |-> "map", playlist |-> probe.playlist,
               segmentMap |-> buildSegmentMap(probe.playlist)]
  /\ UNCHANGED << state, pending, effects, refs, audio, loadHandlers,
                  playPromises, rejected, timers, playAllowed, scheduling,
                  last, step, ops >>

NextMap == BuildMap

SpecMap == InitMap /\ [][NextMap]_vars

\* ------------------------------------------- getCurrentVerse on its own

\* Strings are sequences of characters.
DigitChars == << "0", "1", "2", "3", "4", "5", "6", "7", "8", "9" >>

IsDigit(c) == \E i \in 1..10 : DigitChars[i] = c

\* [A-Z0-9] under the i flag, over the letters the references use.
IsAlnum(c) == IsDigit(c) \/ c \in {"J", "H", "N", "j", "h", "n"}

\* \s
IsSpace(c) == c = " "

Includes(str, c) == \E i \in 1..Len(str) : str[i] = c

\* Length of the longest run of characters of one class starting at i.
RECURSIVE DigitRun(_, _)
DigitRun(str, i) ==
  IF i <= Len(str) /\ IsDigit(str[i]) THEN 1 + DigitRun(str, i + 1) ELSE 0

RECURSIVE AlnumRun(_, _)
AlnumRun(str, i) ==
  IF i <= Len(str) /\ IsAlnum(str[i]) THEN 1 + AlnumRun(str, i + 1) ELSE 0

RECURSIVE SpaceRun(_, _)
SpaceRun(str, i) ==
  IF i <= Len(str) /\ IsSpace(str[i]) THEN 1 + SpaceRun(str, i + 1) ELSE 0

\* String.prototype.trim
RECURSIVE Trim(_)
Trim(str) ==
  IF str = << >> THEN str
  ELSE IF IsSpace(str[1]) THEN Trim(Tail(str))
  ELSE IF IsSpace(str[Len(str)]) THEN Trim(SubSeq(str, 1, Len(str) - 1))
  ELSE str

\* String.prototype.split on a one-character separator
RECURSIVE Split(_, _)
Split(str, sep) ==
  IF ~Includes(str, sep) THEN << str >>
  ELSE LET i == CHOOSE j \in 1..Len(str) :
                  str[j] = sep /\ \A k \in 1..(j - 1) : str[k] # sep
       IN << SubSeq(str, 1, i - 1) >>
            \o Split(SubSeq(str, i + 1, Len(str)), sep)

DigitValue(c) == (CHOOSE i \in 1..10 : DigitChars[i] = c) - 1

RECURSIVE DigitsValue(_)
DigitsValue(str) ==
  IF str = << >> THEN 0
  ELSE 10 * DigitsValue(SubSeq(str, 1, Len(str) - 1))
         + DigitValue(str[Len(str)])

\* Number(string): surrounding white space is ignored, the empty string is
\* 0, a string of decimal digits is its value, anything else is NaN.
Number(str) ==
  LET t == Trim(str)
  IN IF \A i \in 1..Len(t) : IsDigit(t[i]) THEN DigitsValue(t) ELSE NaN

\* for (let v = start; v <= end; v++) verses.push(v)
Range(start, end) ==
  IF start = NaN \/ end = NaN \/ start > end THEN << >>
  ELSE [i \in 1..(end - start + 1) |-> start + i - 1]

\* const [start, end] = part.split("-").map(Number), and the loop over it
DashRange(part) ==
  LET nums == Split(part, "-")
  IN Range(Number(nums[1]), Number(nums[2]))

PartVerses(part) ==
  IF Includes(part, "-") THEN DashRange(Trim(part)) ELSE << Number(Trim(part)) >>

RECURSIVE PartsVerses(_)
PartsVerses(parts) ==
  IF parts = << >> THEN << >>
  ELSE PartVerses(parts[1]) \o PartsVerses(Tail(parts))

\* The verse numbers a verse specification lists: "1,3,5", "1-2" or "1".
ParseVerses(verseSpec) ==
  IF Includes(verseSpec, ",") THEN PartsVerses(Split(verseSpec, ","))
  ELSE IF Includes(verseSpec, "-") THEN DashRange(verseSpec)
  ELSE << Number(verseSpec) >>

\* segment.reference.match(/^([A-Z0-9]+)\s+(\d+):(.+)$/i): the three groups,
\* or no match.
RefMatch(reference) ==
  LET b == AlnumRun(reference, 1)
      w == SpaceRun(reference, b + 1)
      d == DigitRun(reference, b + w + 1)
      colon == b + w + d + 1
  IN IF b >= 1 /\ w >= 1 /\ d >= 1 /\ colon < Len(reference)
          /\ reference[colon] = ":"
     THEN [matched   |-> TRUE,
           book      |-> SubSeq(reference, 1, b),
           chapter   |-> SubSeq(reference, b + w + 1, b + w + d),
           verseSpec |-> SubSeq(reference, colon + 1, Len(reference))]
     ELSE [matched |-> FALSE]

\* What getCurrentVerse returns when it returns no verse: null.
NoVerse == << >>

\* A verse number in a template literal.
RECURSIVE NumberChars(_)
NumberChars(n) ==
  IF n < 10 THEN << DigitChars[n + 1] >>
  ELSE NumberChars(n \div 10) \o << DigitChars[(n % 10) + 1] >>

\* `${book} ${chapter}:${verse}`; verses[i] of an empty list is undefined.
VerseLabel(match, list, i) ==
  match.book \o << " " >> \o match.chapter \o << ":" >>
    \o (IF i < 1 \/ i > Len(list)
        THEN << "u", "n", "d", "e", "f", "i", "n", "e", "d" >>
        ELSE IF list[i] = NaN THEN << "N", "a", "N" >>
        ELSE NumberChars(list[i]))

\* currentTime >= timestamps[i] && currentTime < (timestamps[i + 1] || Infinity)
\* for the 0-based i; a comparison with undefined is false.
InVerse(timestamps, i, currentTime) ==
  /\ i + 1 <= Len(timestamps)
  /\ currentTime >= timestamps[i + 1]
  /\ \/ i + 2 > Len(timestamps)
     \/ timestamps[i + 2] = 0
     \/ currentTime < timestamps[i + 2]

\* getCurrentVerse for the segment getCurrentSegment returns and the real
\* time of the audio element.  A segment without timingData has no
\* timestamps.
getCurrentVerse(segment, currentTime) ==
  IF segment.timestamps = << >> THEN NoVerse
  ELSE
    LET timestamps == segment.timestamps
        match == RefMatch(segment.reference)
    IN IF ~match.matched THEN NoVerse
       ELSE
         LET list == ParseVerses(match.verseSpec)
             hits == {i \in 0..(Len(list) - 1) :
                        InVerse(timestamps, i, currentTime)}
         IN IF hits # {} THEN VerseLabel(match, list, SetMin(hits) + 1)
            ELSE IF currentTime < timestamps[1] THEN VerseLabel(match, list, 1)
            ELSE VerseLabel(match, list, Len(list))

\* References of segments: a chapter, a range of verses, one verse, a list
\* of verses, a list with a range.
Chapter == << "J", "H", "N", " ", "3" >>

References ==
  { Chapter,
    Chapter \o << ":", "1", "-", "3" >>,
    Chapter \o << ":", "1", "6" >>,
    Chapter \o << ":", "1", ",", "3", ",", "5" >>,
    Chapter \o << ":", "1", "-", "2", ",", " ", "9" >>,
    << "1", "j", "n", " ", "2", ":", "9", "-", "1", "1" >> }

\* Marker lists of a segment with verses.
VerseMarkers == {<< >>, <<1, 3>>, <<2, 4, 6>>, <<0, 2, 5, 9>>}

\* Real times of the audio element.
MaxTime == 10

Times == -1..MaxTime

InitVerse ==
  /\ InitEngine
  /\ scheduling = "prompt"
  /\ ops = 0
  /\ \E reference \in References, ts \in VerseMarkers, t \in Times :
       probe = [kind |-> "segment", reference |-> reference,
                timestamps |-> ts, currentTime |-> t, verse |-> NoVerse]

\* getCurrentVerse()
GetCurrentVerse ==
  /\ probe.kind = "segment"
  /\ probe' = [probe EXCEPT
                 !.kind = "verse",
                 !.verse = getCurrentVerse(
                             [reference |-> probe.reference,
                              timestamps |-> probe.timestamps],
                             probe.currentTime)]
  /\ UNCHANGED << state, pending, effects, refs, audio, loadHandlers,
                  playPromises, rejected, timers, playAllowed, scheduling,
                  last, step, ops >>

NextVerse == GetCurrentVerse

SpecVerse == InitVerse /\ [][NextVerse]_vars

\* ------------------------------------------------------------ properties

\* Nothing an operation started is still outstanding: no queued update or
\* effect, no load in flight, no queued event, no pending play() promise,
\* no armed timer.
Quiescent ==
  /\ pending = NoUpdates
  /\ effects = {}
  /\ audio.net # "loading"
  /\ NoQueuedEvent
  /\ playPromises = {}
  /\ audio.resolving = {}
  /\ rejected = {}
  /\ timers = NoTimers

\* The last user operation was op, nothing has happened to the playback
\* since, and everything the operation started has completed.
SettledAfter(op) == last.op = op /\ Quiescent

PlaylistLoaded == state.currentPlaylist # NoPlaylist

ActiveMap == buildSegmentMap(Entries(state.currentPlaylist))

\* C1: once seekTo(x) has settled on a loaded playlist, the committed
\* virtualTime lies in [0, totalDuration]; a negative target leaves the engine
\* on segment 0 with the resource at its startOffset, a target beyond
\* totalDuration on the last segment with the resource at its endOffset.
C1_SeekClamped ==
  (SettledAfter("seekTo") /\ PlaylistLoaded /\ audio.net = "loaded") =>
    /\ state.virtualTime >= 0
    /\ state.virtualTime <= state.totalDuration
    /\ last.n < 0 =>
         /\ state.currentSegmentIndex = 0
         /\ audio.currentTime = ActiveMap[1].startTimestamp
    /\ last.n > state.totalDuration =>
         /\ state.currentSegmentIndex = Len(ActiveMap) - 1
         /\ audio.currentTime = ActiveMap[Len(ActiveMap)].endTimestamp

\* Everything of the engine: the player state, committed and queued, the
\* refs, the resource and what is scheduled on it.
EngineVars ==
  << state, pending, effects, refs, audio, loadHandlers, playPromises,
     rejected, timers >>

\* This step is a call of the public operation op.
Called(op) == ops' = ops - 1 /\ last'.op = op

RateInRange == state.playbackRate >= 25 /\ state.playbackRate <= 200

\* The rate of an accepted setRate is the committed rate once it is rendered.
RateCommitted ==
  (/\ last.op = "setPlaybackRate"
   /\ last.n >= 25
   /\ last.n <= 200
   /\ pending = NoUpdates) => state.playbackRate = last.n

SetRateEffect ==
  \A r \in Rates :
    (Called("setPlaybackRate") /\ last'.n = r) =>
      IF r < 25 \/ r > 200
      THEN UNCHANGED EngineVars
      ELSE /\ pending' = [playbackRate |-> r] @@ pending
           /\ UNCHANGED << state, effects, refs, audio, loadHandlers,
                           playPromises, rejected, timers >>

\* C3: the rate always satisfies 0.25 <= rate <= 2.0; setRate(r) with r
\* outside the range leaves the whole player state unchanged, and with r
\* inside it sets the rate to r and changes nothing else.
C3_RateGuard == [](RateInRange /\ RateCommitted) /\ [][SetRateEffect]_vars

\* setRate(3.0) was refused after setRate(1.5) was accepted.
C3_Witness ==
  last.op = "setPlaybackRate" /\ last.n = 300 /\ state.playbackRate = 150

HandedOver ==
  /\ last.op \in {"timeadvance", "ended"}
  /\ last.playlist # NoPlaylist
  /\ Quiescent

\* C2: when the active playlist finishes naturally, the playlist at the head
\* of the queue (the first one enqueued) is activated and played from its
\* segment 0: once the hand-over has settled, with playback permitted and the
\* file loaded, the queued playlist is the active one, the engine is playing
\* it, and the resource plays segment 0's file from segment 0's startOffset.
C2_QueueFifo ==
  (HandedOver /\ playAllowed /\ audio.net = "loaded") =>
    /\ state.currentPlaylist = last.playlist
    /\ state.currentSegmentIndex = 0
    /\ state.isPlaying
    /\ ~audio.paused
    /\ audio.src = Entries(last.playlist)[1].audioUrl
    /\ audio.currentTime = StartTimestamp(Entries(last.playlist)[1].timestamps)

\* This step issues a resource load: only a load registers a load listener.
LoadIssued == Len(loadHandlers') > Len(loadHandlers)

\* This step moves the engine to another segment of the active playlist:
\* segment-end handling in a playback event, or seekTo / playSegment /
\* nextSegment / previousSegment switching segments.
SegmentSwitch ==
  /\ pending = NoUpdates
  /\ "currentSegmentIndex" \in DOMAIN pending'
  /\ step'.activated = NoPlaylist
  /\ step'.calls # << >>
  /\ \/ ops' = ops /\ step'.handler \in {"timeadvance", "ended", "timeupdate"}
     \/ /\ ops' = ops - 1
        /\ last'.op \in {"seekTo", "playSegment", "nextSegment",
                          "previousSegment"}

\* The segment the step moves to, and the offset into it.
SwitchTarget == refs.segmentMap[pending'.currentSegmentIndex + 1]
SwitchOffset ==
  IF ops' = ops - 1 /\ last'.op = "seekTo"
  THEN last'.n - SwitchTarget.virtualStart ELSE 0

\* C5: a step that moves to another segment issues a load exactly when the
\* target segment's media URL differs from the URL the resource holds; when
\* the URLs are equal the resource keeps its file and is only repositioned,
\* to the target segment's startOffset plus the seek offset (as far as the
\* file reaches).
C5_NoRedundantReload ==
  [][SegmentSwitch =>
       /\ \A k \in 1..Len(step'.calls) :
            LET c == step'.calls[k]
            IN  /\ c.audioUrl = SwitchTarget.audioUrl
                /\ c.loaded <=> (c.audioUrl # c.src)
                /\ ~c.loaded =>
                     c.position =
                       Clamp(SwitchTarget.startTimestamp + SwitchOffset,
                             0, MediaDuration(c.src))
       /\ LoadIssued <=> (SwitchTarget.audioUrl # audio.src)
       /\ ~LoadIssued =>
            /\ audio'.src = audio.src
            /\ audio'.net = audio.net
            /\ audio'.currentTime =
                 Clamp(SwitchTarget.startTimestamp + SwitchOffset,
                       0, MediaDuration(audio.src))]_vars

\* Playback ran from segment 0 of P1 into segment 1, which is in the same
\* file: the resource was repositioned to offset 2 and nothing was loaded.
C5_Witness ==
  /\ step.handler = "timeadvance"
  /\ state.currentPlaylist = "P1"
  /\ step.calls = << [audioUrl |-> "u1", src |-> "u1", loaded |-> FALSE,
                      targetTime |-> 2, position |-> 2] >>
  /\ audio.src = "u1"
  /\ audio.net = "loaded"
  /\ audio.currentTime = 2

\* C6: the map built from a playlist of N descriptors has N segments,
\* segment 0 starts at virtual time 0, each segment ends where the next one
\* starts, each has virtualEnd = virtualStart + duration, and segment i has
\* index i.
C6_SegmentContiguity ==
  probe.kind = "map" =>
    LET segmentMap == probe.segmentMap
        N == Len(probe.playlist)
    IN  /\ Len(segmentMap) = N
        /\ segmentMap[1].virtualStart = 0
        /\ \A i \in 1..(N - 1) :
             segmentMap[i].virtualEnd = segmentMap[i + 1].virtualStart
        /\ \A i \in 1..N :
             /\ segmentMap[i].virtualEnd
                  = segmentMap[i].virtualStart + segmentMap[i].duration
             /\ segmentMap[i].index = i - 1

\* A map was built from segments with several markers, none, and one.
C6_Witness ==
  /\ probe.kind = "map"
  /\ probe.playlist = << Descriptor("u1", <<1, 2, 4>>), Descriptor("u1", << >>),
                         Descriptor("u2", <<1, 3>>) >>
  /\ probe.segmentMap[3].virtualStart = 3
  /\ probe.segmentMap[3].virtualEnd = 5

\* Segment 0 of the active playlist.
FirstSegment == ActiveMap[1]

\* C7: once stop() has settled on a loaded playlist, the engine is neither
\* playing nor paused, the segment index and the virtual time are 0, and the
\* resource is paused on segment 0's file at its startOffset, with the
\* shadow index at 0, so that a following play() starts from segment 0.
C7_StopResets ==
  (SettledAfter("stop") /\ PlaylistLoaded /\ audio.net = "loaded") =>
    /\ ~state.isPlaying
    /\ ~state.isPaused
    /\ state.currentSegmentIndex = 0
    /\ state.virtualTime = 0
    /\ audio.paused
    /\ audio.src = FirstSegment.audioUrl
    /\ audio.currentTime = FirstSegment.startTimestamp
    /\ refs.currentSegment = 0
    /\ refs.segmentMap = ActiveMap

\* C8: once loadPlaylist(entries, mode "replace") with non-empty entries has
\* settled, with playback permitted and the file loaded, entries is the active
\* playlist, the segment map is the one built from entries, the segment index
\* and the virtual time are 0, the error is cleared, the resource holds
\* segment 0's file at its startOffset, and the engine plays only if autoPlay
\* was true.
C8_ReplaceSettled ==
  (/\ SettledAfter("loadPlaylist")
   /\ last.mode = "replace"
   /\ last.playlist # EmptyList
   /\ playAllowed
   /\ audio.net = "loaded") =>
    /\ state.currentPlaylist = last.playlist
    /\ refs.segmentMap = buildSegmentMap(Entries(last.playlist))
    /\ state.currentSegmentIndex = 0
    /\ state.virtualTime = 0
    /\ state.error = NoError
    /\ audio.src = FirstSegment.audioUrl
    /\ audio.currentTime = FirstSegment.startTimestamp
    /\ state.isPlaying => last.autoPlay
    /\ ~audio.paused => last.autoPlay

\* This step is loadPlaylist(P, mode "queue") with a non-empty P.
Enqueue ==
  /\ Called("loadPlaylist")
  /\ last'.mode = "queue"
  /\ last'.playlist # EmptyList

\* C9: loadPlaylist(P, mode "queue", clearQueue true) with a non-empty P
\* makes the queue exactly << P >>, whatever it held and whatever the
\* position.
C9_ClearQueueLeavesOne ==
  [][(Enqueue /\ last'.clearQueue) =>
       /\ "queue" \in DOMAIN pending'
       /\ pending'.queue = << last'.playlist >>]_vars

\* The index the position names in a queue of the given length: "end" the
\* length, "start" 0, a number itself.
InsertIndex(len, position) ==
  IF position.kind = "end" THEN len
  ELSE IF position.kind = "start" THEN 0 ELSE position.at

\* C10: loadPlaylist(P, mode "queue") without clearQueue, on a queue Q whose
\* shadow copy is in step with the committed one, makes the queue one longer
\* with P at the index the position names (last for "end", first for
\* "start", k for k in 0..len(Q)) and Q's playlists around it in their
\* order.
C10_QueueInsert ==
  [][(/\ Enqueue
      /\ ~last'.clearQueue
      /\ refs.queue = state.queue
      /\ "queue" \notin DOMAIN pending
      /\ InsertIndex(Len(state.queue), last'.position) <= Len(state.queue)) =>
       LET Q == state.queue
           k == InsertIndex(Len(Q), last'.position)
       IN  /\ "queue" \in DOMAIN pending'
           /\ Len(pending'.queue) = Len(Q) + 1
           /\ pending'.queue[k + 1] = last'.playlist
           /\ \A i \in 1..k : pending'.queue[i] = Q[i]
           /\ \A i \in (k + 1)..Len(Q) : pending'.queue[i + 1] = Q[i]]_vars

\* P3 was inserted at index 1 between the queued P1 and P2.
C10_Witness ==
  /\ last.op = "loadPlaylist"
  /\ last.mode = "queue"
  /\ ~last.clearQueue
  /\ last.playlist = "P3"
  /\ last.position = Position("index", 1)
  /\ state.queue = << "P1", "P3", "P2" >>
  /\ refs.queue = state.queue

\* Number of segments of the active playlist (0 when none is loaded).
SegmentCount == Len(Entries(state.currentPlaylist))

\* C11: playSegment(i) with i < 0 or i >= the number of segments changes
\* nothing of the engine: player state (committed and queued), segment map
\* and the other shadow copies, queue, resource and timers stay as they were.
C11_PlaySegmentOutOfRange ==
  [][(Called("playSegment") /\ (last'.n < 0 \/ last'.n >= SegmentCount))
       => UNCHANGED EngineVars]_vars

\* playSegment(3) was called while the three segments of P1 were playing.
C11_Witness ==
  /\ last.op = "playSegment"
  /\ last.n = 3
  /\ state.currentPlaylist = "P1"
  /\ state.isPlaying
  /\ ~audio.paused
  /\ timers = NoTimers

\* This step is playSegment(i) with a valid i.
Jump ==
  /\ Called("playSegment")
  /\ last'.n >= 0
  /\ last'.n < SegmentCount

\* A jump made while the engine was not playing issues no play request and
\* arms no timer, and leaves a paused resource paused.
JumpStartsNothing ==
  (Jump /\ ~state.isPlaying) =>
    /\ timers' = timers
    /\ playPromises' \subseteq playPromises
    /\ audio'.resolving \subseteq audio.resolving
    /\ audio.paused => audio'.paused

\* A jump made while the engine was playing, to a segment of positive
\* duration (one that does not end the moment it starts), has settled with
\* the engine playing the chosen segment.
JumpKeepsPlaying ==
  (/\ SettledAfter("playSegment")
   /\ last.intent = "playing"
   /\ last.n >= 0
   /\ last.n < SegmentCount
   /\ ActiveMap[last.n + 1].duration > 0
   /\ audio.net = "loaded") =>
    /\ state.isPlaying
    /\ ~audio.paused
    /\ state.currentSegmentIndex = last.n
    /\ refs.currentSegment = last.n
    /\ audio.src = ActiveMap[last.n + 1].audioUrl

\* C12: playSegment(i) with a valid i keeps the play intent: called while the
\* engine was playing, it settles with the engine playing segment i (also in
\* another file); called while the engine was not playing, it does not start
\* the resource.
C12_PlaySegmentKeepsIntent == []JumpKeepsPlaying /\ [][JumpStartsNothing]_vars

\* The resource reports a load failure in this step.
LoadFails == audio.net = "loading" /\ audio'.net = "failed"

\* The player state as the next render shows it.
Rendered == pending @@ state

\* The fields a load failure must leave alone.
PreservedFields ==
  {"currentPlaylist", "currentSegmentIndex", "virtualTime", "totalDuration",
   "playbackRate", "queue"}

\* The failure sets the error, clears playing and loading, and keeps the rest.
ErrorEffect ==
  LoadFails =>
    /\ Rendered'.error = LoadFailed
    /\ ~Rendered'.isPlaying
    /\ ~Rendered'.isLoading
    /\ \A f \in PreservedFields : Rendered'[f] = Rendered[f]

\* Once the failure has settled the engine shows an error, not playing, not
\* loading.
ErrorState ==
  (last.op = "error" /\ pending = NoUpdates) =>
    /\ state.error # NoError
    /\ ~state.isPlaying
    /\ ~state.isLoading

\* C13: a load failure of the resource puts the engine in the error state
\* (error set, not playing, not loading) and leaves active playlist, segment
\* index, virtual time, total duration, rate and queue as they were.
C13_LoadFailurePreserves == []ErrorState /\ [][ErrorEffect]_vars

\* The file of segment 2 of P1 failed to load when playback reached it.
C13_Witness ==
  /\ last.op = "error"
  /\ state.error = LoadFailed
  /\ state.currentPlaylist = "P1"
  /\ state.currentSegmentIndex = 2
  /\ state.virtualTime = 3
  /\ audio.net = "failed"

\* This step is loadPlaylist(entries, mode "replace") with non-empty entries.
ReplaceCall ==
  /\ Called("loadPlaylist")
  /\ last'.mode = "replace"
  /\ last'.playlist # EmptyList

\* In this step a play request of play() has started playback: its
\* then-callback runs.
PlayStarts ==
  /\ "play" \in audio.resolving
  /\ "play" \notin audio'.resolving

\* While the resource is failed only a user operation issues a load.
NoLoadOfItsOwn == (audio.net = "failed" /\ LoadIssued) => ops' = ops - 1

\* C14 as stated: once a load failure has set the error, the engine issues no
\* load on its own, and the error is cleared only by a loadPlaylist call.
C14_ErrorClearedOnlyByLoad ==
  [][/\ NoLoadOfItsOwn
     /\ (Rendered.error = LoadFailed /\ Rendered'.error = NoError)
          => Called("loadPlaylist")]_vars

\* C14, amended: while the resource is failed the engine issues no load on
\* its own, and an error, once shown, is cleared only by a replace-mode
\* loadPlaylist with non-empty entries or by a play request of play() that
\* starts playback (which needs a file that loaded); pause, stop, seekTo,
\* playSegment, a refused play(), timers and resource events do not clear it.
C14_ErrorKept ==
  [][/\ NoLoadOfItsOwn
     /\ (Rendered.error # NoError /\ Rendered'.error = NoError)
          => (ReplaceCall \/ PlayStarts)]_vars

\* After a load failure play() was called and refused: an error still shows.
C14_Witness ==
  /\ last.op = "play"
  /\ audio.net = "failed"
  /\ pending = NoUpdates
  /\ rejected = {}
  /\ state.error = PlayFailed
  /\ ~state.isPlaying

\* ---------------------------------------------------------------- C15

\* The last handler issued a play request that the runtime refused, and
\* everything that follows from the refusal has been rendered.
RefusalSettled == step.refused /\ rejected = {} /\ pending = NoUpdates

RefusalShown ==
  RefusalSettled => state.error # NoError /\ ~state.isPlaying

\* The rejection callback of a refused request runs.
RefusalCaught == step.refused /\ rejected # {} /\ rejected' = {}

CatchShows ==
  RefusalCaught => Rendered'.error = PlayFailed /\ ~Rendered'.isPlaying

\* play() after a refusal starts playback of the loaded file without a load.
RetryPlays ==
  (Called("play") /\ state.error = PlayFailed /\ playAllowed
     /\ audio.net = "loaded" /\ state.currentPlaylist # NoPlaylist)
    => ~LoadIssued /\ ~audio'.paused

\* C15: whenever the runtime refuses a play request the engine issued (from
\* play(), auto-play after loadPlaylist, the resume after a seek or a segment
\* transition, or the auto-play of a queued playlist), the engine afterwards
\* shows an error message and is not in the playing state, and a later
\* play() starts playback without reloading.
C15_PlayRefusalShown ==
  []RefusalShown /\ [][CatchShows /\ RetryPlays]_vars

\* ---------------------------------------------------------------- C16

Ascending(ts) == \A i \in 1..(Len(ts) - 1) : ts[i] < ts[i + 1]

\* The sub-unit of markers ts that real time t falls in, counted from 1:
\* the k with ts[k] <= t < ts[k + 1], the first one before ts[1] and the
\* last one from the last marker on.
SubUnit(ts, t) ==
  IF t < ts[1] THEN 1
  ELSE IF t >= ts[Len(ts)] THEN Len(ts) - 1
  ELSE CHOOSE k \in 1..(Len(ts) - 1) : ts[k] <= t /\ t < ts[k + 1]

\* The characters of a reference from its first ":" on.
AfterColon(reference) ==
  LET i == CHOOSE j \in 1..Len(reference) :
             reference[j] = ":" /\ \A k \in 1..(j - 1) : reference[k] # ":"
  IN SubSeq(reference, i + 1, Len(reference))

\* C16: for a segment with markers m[0] < ... < m[n] and a label, and any
\* real time t, the marker resolver returns the sub-unit k with
\* m[k] <= t < m[k+1], the first sub-unit for t before m[0] and the last one
\* for t at or after m[n], never no result: the label's verse at that
\* position when the label lists one.
C16_MarkerResolved ==
  (probe.kind = "verse" /\ Len(probe.timestamps) >= 2
     /\ Ascending(probe.timestamps))
    => /\ probe.verse # NoVerse
       /\ LET k == SubUnit(probe.timestamps, probe.currentTime)
              list == ParseVerses(AfterColon(probe.reference))
          IN (Includes(probe.reference, ":") /\ k <= Len(list))
               => probe.verse = VerseLabel(RefMatch(probe.reference), list, k)

\* ---------------------------------------------------------------- C17

\* calculateVirtualTime for segment i of the shadow map at real time r.
ToVirtual(i, r) ==
  calculateVirtualTime([refs  |-> [refs EXCEPT !.currentSegment = i],
                        audio |-> [audio EXCEPT !.currentTime = r]])

RealTimes == 0..Max(MediaDuration("u1"), MediaDuration("u2"))

Monotone ==
  \A i \in 0..(Len(refs.segmentMap) - 1) : \A r1, r2 \in RealTimes :
    r1 <= r2 => ToVirtual(i, r1) <= ToVirtual(i, r2)

\* Two time-advance events in a row, with no other handler and no change of
\* segment or playlist in between or by the second one.
AdvanceInSegment ==
  /\ step.handler = "timeadvance"
  /\ step'.handler \in {"timeadvance", "ended"}
  /\ audio'.currentTime = audio.currentTime + 1
  /\ refs'.currentSegment = refs.currentSegment
  /\ refs'.segmentMap = refs.segmentMap
  /\ Rendered'.currentSegmentIndex = Rendered.currentSegmentIndex
  /\ Rendered'.currentPlaylist = Rendered.currentPlaylist

NoStepBack == AdvanceInSegment => Rendered'.virtualTime >= Rendered.virtualTime

\* C17: within one segment the virtual time is non-decreasing in the real
\* time of the resource, so between two consecutive time-advance events with
\* no seek, segment change or playlist change the virtual time the engine
\* shows never moves backwards.
C17_VirtualTimeMonotone == []Monotone /\ [][NoStepBack]_vars

\* The last segment of a playlist has been played through, one time-advance
\* event after the other.
C17_Witness ==
  /\ step.handler = "ended"
  /\ last.op = "ended"
  /\ pending = NoUpdates
  /\ state.currentPlaylist = "P2"
  /\ state.virtualTime = 2
  /\ audio.currentTime = 3

\* ---------------------------------------------------------------- C18

\* virtualStart + max(0, r - startOffset) for segment i of the shadow map.
OffsetClamped(i, r) ==
  refs.segmentMap[i + 1].virtualStart
    + Max(0, r - refs.segmentMap[i + 1].startTimestamp)

ClampedEverywhere ==
  \A i \in 0..(Len(refs.segmentMap) - 1) : \A r \in RealTimes :
    ToVirtual(i, r) = OffsetClamped(i, r)

\* A timeupdate event is handled, with a segment active and no seek under
\* way.
TimeEvent ==
  /\ step'.handler \in {"timeupdate", "timeadvance"}
  /\ ops' = ops
  /\ state' = state
  /\ effects' = effects
  /\ pending' # NoUpdates
  /\ playAllowed' = playAllowed
  /\ audio.net = "loaded"
  /\ ~refs.isSeeking
  /\ refs.currentSegment < Len(refs.segmentMap)

\* The real time the handler reads: the position of the queued event, or
\* the position playback has advanced to.
EventRealTime ==
  IF step'.handler = "timeupdate" THEN audio.currentTime
  ELSE audio.currentTime + 1

EventClamped ==
  TimeEvent =>
    refs'.virtualTime = OffsetClamped(refs.currentSegment, EventRealTime)

\* C18: for every active segment S and every real time r, r < S.startOffset
\* included, the virtual time the engine computes on a time-advance event is
\* S.virtualStart + max(0, r - S.startOffset).
C18_VirtualTimeOffsetClamped == []ClampedEverywhere /\ [][EventClamped]_vars

\* ---------------------------------------------------------------- C19

\* Every state commit and every effect has been applied.
Rendering == pending = NoUpdates /\ effects = {}

\* virtualEnd of the last segment of the map built from the active playlist.
LastVirtualEnd ==
  IF Len(ActiveMap) = 0 THEN 0 ELSE ActiveMap[Len(ActiveMap)].virtualEnd

RECURSIVE SumOfDurations(_, _)
SumOfDurations(segmentMap, n) ==
  IF n = 0 THEN 0
  ELSE SumOfDurations(segmentMap, n - 1) + segmentMap[n].duration

\* C19: in every state with all commits and sync effects applied, the
\* exposed totalDuration is the virtualEnd of the last segment of the map
\* built from the active playlist, which is the sum of its segment durations,
\* and 0 when no playlist is loaded; so it is after a replace-mode
\* loadPlaylist and after the queue has handed over the next playlist.
C19_TotalDuration ==
  Rendering =>
    /\ state.totalDuration = LastVirtualEnd
    /\ state.totalDuration = SumOfDurations(ActiveMap, Len(ActiveMap))
    /\ ~PlaylistLoaded => state.totalDuration = 0

\* The queue has handed over playlist P2, and its length is shown.
C19_Witness ==
  /\ Rendering
  /\ last.op \in {"timeadvance", "ended"}
  /\ last.playlist = "P2"
  /\ state.currentPlaylist = "P2"
  /\ state.totalDuration = 2

\* ---------------------------------------------------------------- C20

\* The markers of the descriptor segment i of the built map was made from.
MarkersOf(i) == probe.playlist[i].timestamps

Untimed(i) ==
  Len(MarkersOf(i)) < 2 =>
    /\ probe.segmentMap[i].duration = 0
    /\ probe.segmentMap[i].virtualStart = probe.segmentMap[i].virtualEnd

Timed(i) ==
  (Len(MarkersOf(i)) >= 2 /\ Ascending(MarkersOf(i)) /\ MarkersOf(i)[1] >= 0)
    => /\ probe.segmentMap[i].startTimestamp = MarkersOf(i)[1]
       /\ probe.segmentMap[i].endTimestamp = MarkersOf(i)[Len(MarkersOf(i))]
       /\ probe.segmentMap[i].duration
            = probe.segmentMap[i].endTimestamp
                - probe.segmentMap[i].startTimestamp

\* C20: in a built segment map every segment with fewer than two markers has
\* duration 0 and virtualStart = virtualEnd, and every segment with at least
\* two ascending non-negative markers has startOffset = its first marker,
\* endOffset = its last marker and duration = endOffset - startOffset.
C20_SegmentTiming ==
  probe.kind = "map" =>
    \A i \in 1..Len(probe.segmentMap) : Untimed(i) /\ Timed(i)

\* A map built from a segment with one marker, one with none and one with
\* three.
C20_Witness ==
  /\ probe.kind = "map"
  /\ Len(probe.segmentMap) = 3
  /\ MarkersOf(1) = <<2>>
  /\ MarkersOf(2) = << >>
  /\ MarkersOf(3) = <<1, 2, 4>>
  /\ probe.segmentMap[3].duration = 3

\* ---------------------------------------------------------------- C21

\* The ended event is delivered right after the timeupdate listener has
\* found the end of a non-final segment and moved on to the next one; only
\* renders and effects may lie between the two.
DoubleEnd ==
  /\ step.handler = "timeadvance"
  /\ step.calls # << >>
  /\ step.activated = NoPlaylist
  /\ audio.ended
  /\ ~audio'.ended
  /\ step'.handler = "ended"

SecondEndIgnored ==
  DoubleEnd =>
    /\ Rendered'.currentSegmentIndex = Rendered.currentSegmentIndex
    /\ Rendered'.currentPlaylist = Rendered.currentPlaylist

\* C21: when the end detection of the time-advance handler and the natural
\* end event are both delivered for the end of the same non-final segment i,
\* with any interleaving of state commits, the active segment index advances
\* by exactly one: the second delivery leaves it at i + 1.
C21_SegmentEndIdempotent == [][SecondEndIgnored]_vars

\* ---------------------------------------------------------------- C22

\* The ended event is delivered right after the timeupdate listener has
\* found the end of the final segment and handed over to a queued playlist.
DoubleHandOver ==
  /\ step.handler = "timeadvance"
  /\ step.activated # NoPlaylist
  /\ audio.ended
  /\ ~audio'.ended
  /\ step'.handler = "ended"

SecondHandOverIgnored ==
  DoubleHandOver =>
    /\ Rendered.currentPlaylist = step.activated
    /\ Rendered'.currentPlaylist = Rendered.currentPlaylist
    /\ Rendered'.queue = Rendered.queue
    /\ Rendered'.currentSegmentIndex = 0

\* C22: when the segment-end handler runs twice for the end of the final
\* segment while the queue is non-empty (end detection of the time-advance
\* handler plus the natural end event, with any interleaving of state
\* commits), exactly one playlist leaves the queue, it becomes the active
\* one, and the active segment index is still 0 afterwards.
C22_HandOverIdempotent == [][SecondHandOverIgnored]_vars

\* ---------------------------------------------------------------- C23

\* The position the last operation asked for: the start of segment 0 for
\* loadPlaylist, the start of the chosen segment for playSegment, the target
\* segment's start plus the offset into it for seekTo; as far as the file
\* reaches.
RequestedSegment ==
  IF last.op = "seekTo" THEN TargetIndex(ActiveMap, last.n)
  ELSE IF last.op = "playSegment" THEN last.n
  ELSE 0

RequestedPosition ==
  LET segment == ActiveMap[RequestedSegment + 1]
      offset == IF last.op = "seekTo" THEN last.n - segment.virtualStart
                ELSE 0
  IN  Clamp(segment.startTimestamp + offset, 0,
            MediaDuration(segment.audioUrl))

\* The last operation is a loadPlaylist, playSegment or seekTo that took
\* effect while an earlier load was pending; every completion has fired and
\* the resource is at rest.
Superseded ==
  /\ last.loading
  /\ \/ last.op = "seekTo"
     \/ last.op = "playSegment" /\ last.n >= 0 /\ last.n < SegmentCount
     \/ /\ last.op = "loadPlaylist"
        /\ last.mode = "replace"
        /\ last.playlist = state.currentPlaylist
  /\ PlaylistLoaded
  /\ Quiescent
  /\ audio.net = "loaded"
  /\ audio.paused

\* C23: a load completion that arrives late for a superseded operation never
\* repositions the resource: when a load is still pending at a later seekTo,
\* playSegment or loadPlaylist, then after all completions have fired the
\* resource is at the position the most recent operation asked for.
C23_StaleCompletionDiscarded ==
  Superseded =>
    /\ audio.src = ActiveMap[RequestedSegment + 1].audioUrl
    /\ audio.currentTime = RequestedPosition

\* ---------------------------------------------------------------- C24

\* The last call of the public API asks the engine to be silent: pause(),
\* stop(), or a replace-mode loadPlaylist without autoPlay.
Halted ==
  \/ last.op \in {"pause", "stop"}
  \/ last.op = "loadPlaylist" /\ last.mode = "replace" /\ ~last.autoPlay

StaysPaused == Halted /\ last' = last /\ audio.paused => audio'.paused

\* C24: a deferred play request left over from an earlier operation never
\* starts the resource after pause(), stop() or a replace-mode loadPlaylist
\* without autoPlay: no timer, poll or completion that runs after such a call
\* takes the resource out of its paused state.
C24_LeftoverPlayDiscarded == [][StaysPaused]_vars

\* ---------------------------------------------------------------- C25

\* C25: at most one change of resource is outstanding: the resource never
\* carries two registered load-completion handlers at the same time.
C25_OneLoadOutstanding == Len(loadHandlers) <= 1

\* ---------------------------------------------------------------- C26

\* C26: the readiness wait before playback resumes is bounded: a poll loop
\* that is running eventually stops polling, whether the resource became
\* ready, the load failed, or the playlist was replaced meanwhile.
C26_PollBounded == timers.poll ~> ~timers.poll

\* ---------------------------------------------------------------- C27

\* A seek is in flight: the guard delay of some seekTo has not elapsed.
SeekInFlight == timers.guard > 0

\* The step delivers a time event of the resource to its listener.
TimeEventDelivered ==
  /\ step'.handler \in {"timeupdate", "timeadvance"}
  /\ audio'.timeupdate # audio.timeupdate \/
     audio'.currentTime # audio.currentTime

TimeEventSuppressed ==
  SeekInFlight /\ TimeEventDelivered =>
    /\ Rendered'.virtualTime = Rendered.virtualTime
    /\ step'.calls = << >>
    /\ step'.activated = NoPlaylist
    /\ Rendered'.isPlaying = Rendered.isPlaying

\* C27: while a seek is in flight, from the seekTo call until that seek's
\* guard delay has elapsed, a time event of the resource neither changes the
\* virtual time shown nor starts segment-end handling; also when a second
\* seekTo is made before the guard delay of the first has elapsed.
C27_SeekSuppressesTimeEvents == [][TimeEventSuppressed]_vars

\* ---------------------------------------------------------------- C28

\* The step is a seekTo that moves to another segment.
CrossSegmentSeek == Called("seekTo") /\ step'.calls # << >>

\* The seek leaves the resource paused, and arranges for playback to resume
\* once the resource is ready exactly when the engine showed playback before
\* the call.
SeekResumesIfPlaying ==
  CrossSegmentSeek /\ ~timers.poll =>
    /\ audio'.paused
    /\ timers'.poll <=> Rendered.isPlaying

\* C28: a seekTo to another segment resumes playback if and only if playback
\* was active immediately before it: when the state shown was not playing the
\* seek does not start the resource, and when it was playing the seek has the
\* resource play the target segment once it is ready.
C28_SeekResumesIffPlaying == [][SeekResumesIfPlaying]_vars

\* ---------------------------------------------------------------- C29

\* A seekTo to a target within the playlist has settled, and the resource is
\* at rest.
SeekSettled ==
  /\ SettledAfter("seekTo")
  /\ PlaylistLoaded
  /\ audio.net = "loaded"
  /\ audio.paused
  /\ last.n >= 0
  /\ last.n <= state.totalDuration

\* The lowest index of a segment whose closed interval holds the target.
LowestContaining == SetMin(Containing(ActiveMap, last.n))

\* C29: for 0 <= v <= totalDuration, seekTo(v) goes to the lowest-index
\* segment whose interval [virtualStart, virtualEnd] contains v: once the
\* seek has settled the current segment is that one and the resource is at
\* its startTimestamp + (v - virtualStart).
C29_SeekSelectsLowestSegment ==
  SeekSettled =>
    /\ state.currentSegmentIndex = LowestContaining
    /\ audio.currentTime =
         ActiveMap[LowestContaining + 1].startTimestamp
           + (last.n - ActiveMap[LowestContaining + 1].virtualStart)

\* ---------------------------------------------------------------- C30

\* The step is a seekTo whose target segment is the current one.
SameSegmentSeek ==
  /\ Called("seekTo")
  /\ Len(refs.segmentMap) > 0
  /\ TargetIndex(refs.segmentMap, last'.n) = refs.currentSegment

CurrentSegment == refs.segmentMap[refs.currentSegment + 1]

\* No reload, no pause; segment, playlist, queue, rate and the playing and
\* paused flags stay; the virtual time shown is the target.
SeekFrame ==
  /\ audio'.src = audio.src
  /\ audio'.net = audio.net
  /\ loadHandlers' = loadHandlers
  /\ ~audio.paused => ~audio'.paused
  /\ Rendered'.currentSegmentIndex = Rendered.currentSegmentIndex
  /\ Rendered'.currentPlaylist = Rendered.currentPlaylist
  /\ Rendered'.queue = Rendered.queue
  /\ Rendered'.playbackRate = Rendered.playbackRate
  /\ Rendered'.isPlaying = Rendered.isPlaying
  /\ Rendered'.isPaused = Rendered.isPaused
  /\ Rendered'.virtualTime = last'.n

\* The resource is at the segment's startTimestamp plus the offset of the
\* target into the segment, and the virtual clock maps that position back to
\* the target.
SeekPosition ==
  /\ audio'.currentTime =
       CurrentSegment.startTimestamp + (last'.n - CurrentSegment.virtualStart)
  /\ ToVirtual(refs.currentSegment, audio.currentTime)' = last'.n

\* C30: a seekTo(v) whose target segment is the current segment changes only
\* the resource's position and the virtual time: the resource is set to
\* startTimestamp + (v - virtualStart) without reload or pause; segment,
\* playlist, queue, rate and playing/paused flags are unchanged; the virtual
\* time shown is v, and the virtual clock maps the new position back to v.
C30_SameSegmentSeek == [][SameSegmentSeek => SeekFrame /\ SeekPosition]_vars

\* ---------------------------------------------------------------- C31

\* The step is a time event that finds the last segment of the playlist at
\* its end while the queue is empty.
FinalSegmentEnds ==
  /\ step'.handler = "timeadvance"
  /\ ops' = ops
  /\ ~refs.isSeeking
  /\ Len(refs.segmentMap) > 0
  /\ refs.currentSegment = Len(refs.segmentMap) - 1
  /\ refs.queue = << >>
  /\ audio'.currentTime = audio.currentTime + 1
  /\ audio'.currentTime >= refs.segmentMap[Len(refs.segmentMap)].endTimestamp

\* What stop() leaves: resource paused, neither playing nor paused, segment
\* and virtual time back at 0.
StoppedOutcome ==
  /\ audio'.paused
  /\ ~Rendered'.isPlaying
  /\ ~Rendered'.isPaused
  /\ Rendered'.currentSegmentIndex = 0
  /\ Rendered'.virtualTime = 0

\* C31: when the last segment of the playlist ends and the queue is empty,
\* the engine stops as stop() does: the resource is paused, the engine is
\* neither playing nor paused, and segment index and virtual time are 0.
C31_PlaylistEndStops == [][FinalSegmentEnds => StoppedOutcome]_vars

\* ---------------------------------------------------------------- C32

\* The first segment of the playlist the queue has handed over.
FirstQueuedSegment == buildSegmentMap(Entries(last.playlist))[1]

\* C32: when the end of a playlist activates a queued playlist, the segment
\* map is rebuilt for it, the current segment is 0, the resource holds the
\* first segment's file at that segment's startTimestamp, and playback is
\* started and reported as playing, whether or not the first segment is in
\* the file that just ended.
C32_HandOverActivates ==
  (/\ HandedOver
   /\ playAllowed
   /\ audio.net = "loaded"
   /\ state.currentPlaylist = last.playlist) =>
    /\ refs.segmentMap = buildSegmentMap(Entries(last.playlist))
    /\ state.currentSegmentIndex = 0
    /\ refs.currentSegment = 0
    /\ audio.src = FirstQueuedSegment.audioUrl
    /\ audio.currentTime = FirstQueuedSegment.startTimestamp
    /\ ~audio.paused
    /\ state.isPlaying

\* ---------------------------------------------------------------- C33

\* The step is a call that edits the queue: a queue-mode loadPlaylist, a
\* loadPlaylist with clearQueue, clearQueue or removeFromQueue.
QueueEdit ==
  \/ Called("loadPlaylist") /\ (last'.mode = "queue" \/ last'.clearQueue)
  \/ Called("clearQueue")
  \/ Called("removeFromQueue")

\* The step is a playback event that hands over to a queued playlist.
Dequeue ==
  /\ ops' = ops
  /\ step'.handler \in {"timeadvance", "ended", "timeupdate"}
  /\ step'.activated # NoPlaylist

QueueKept == Rendered'.queue # Rendered.queue => QueueEdit \/ Dequeue

\* C33: the queue is consumed only when a playlist is exhausted: its content
\* and order change only through a queue-mode loadPlaylist, a loadPlaylist
\* with clearQueue, clearQueue, removeFromQueue, and the dequeue at the end of
\* the final segment; every other call and event leaves it as it was.
C33_QueueOnlyConsumedAtEnd == [][QueueKept]_vars

\* ---------------------------------------------------------------- C34

\* No render and no sync effect is pending.
Synchronized == pending = NoUpdates /\ effects = {}

\* C34: the shadow copies never drift from the committed state: whenever no
\* render and no sync effect is pending, the shadow playing flag is the
\* committed isPlaying, the shadow segment index the committed
\* currentSegmentIndex, the shadow queue the committed queue, and the shadow
\* segment map the map of the committed playlist.
C34_ShadowsInSync ==
  Synchronized =>
    /\ refs.isPlaying = state.isPlaying
    /\ refs.currentSegment = state.currentSegmentIndex
    /\ refs.queue = state.queue
    /\ refs.segmentMap = buildSegmentMap(Entries(state.currentPlaylist))

\* ---------------------------------------------------------------- C35

\* The last call enqueued a playlist, and the shadow queue does not show it
\* yet.
EnqueuePending ==
  /\ last.op = "loadPlaylist"
  /\ last.mode = "queue"
  /\ last.playlist \in PlaylistIds
  /\ Rendered.queue # refs.queue

\* The next call keeps what was enqueued: a second enqueue adds to it, a
\* replace-mode loadPlaylist without clearQueue leaves it, removeFromQueue
\* takes out the entry at its index only.
EnqueueKept ==
  /\ (/\ Called("loadPlaylist")
      /\ last'.mode = "queue"
      /\ ~last'.clearQueue
      /\ last'.playlist \in PlaylistIds)
       => Rendered'.queue
            = NewQueue(Rendered.queue, last'.playlist, FALSE, last'.position)
  /\ (/\ Called("loadPlaylist")
      /\ last'.mode = "replace"
      /\ ~last'.clearQueue)
       => Rendered'.queue = Rendered.queue
  /\ Called("removeFromQueue")
       => Rendered'.queue = RemoveAt(Rendered.queue, last'.n)

\* C35: no enqueue is lost: when a queue-mode loadPlaylist is followed, before
\* its update has reached the shadow queue, by a second queue-mode
\* loadPlaylist, by a replace-mode loadPlaylist without clearQueue or by
\* removeFromQueue, the resulting queue still holds every enqueued playlist,
\* in call order.
C35_NoEnqueueLost == [][EnqueuePending => EnqueueKept]_vars

\* ---------------------------------------------------------------- C36

\* playSegment(i) with a valid i, made while no load was pending, has
\* settled.
SegmentChosen ==
  /\ SettledAfter("playSegment")
  /\ ~last.loading
  /\ PlaylistLoaded
  /\ last.n >= 0
  /\ last.n < SegmentCount

\* A replace-mode loadPlaylist, made while no load was pending, has settled.
PlaylistChosen ==
  /\ SettledAfter("loadPlaylist")
  /\ ~last.loading
  /\ last.mode = "replace"
  /\ state.currentPlaylist = last.playlist
  /\ PlaylistLoaded

\* C36: a segment the user chose is not overridden by a time event that is
\* handled before the shadow segment index follows the committed one: once
\* playSegment(i) with a valid i has settled the current segment is i, and
\* once a replace-mode loadPlaylist has settled it is 0.
C36_ChosenSegmentKept ==
  /\ SegmentChosen => state.currentSegmentIndex = last.n
  /\ PlaylistChosen => state.currentSegmentIndex = 0

\* ---------------------------------------------------------------- C37

\* The resource is playing: it is not paused and has media to play.
ResourcePlaying == ~audio.paused /\ audio.net = "loaded"

\* C37: the playing flag shown agrees with the resource: whenever no play
\* completion, load completion, poll or timer is pending, isPlaying is true
\* exactly when the resource is playing.
C37_PlayingFlagTruthful == Quiescent => (state.isPlaying <=> ResourcePlaying)

\* ---------------------------------------------------------------- C38

\* C38: with a non-empty playlist active, the current segment index is one
\* of its segments: 0 <= currentSegmentIndex < number of segments.
C38_SegmentIndexInRange ==
  SegmentCount > 0 =>
    /\ state.currentSegmentIndex >= 0
    /\ state.currentSegmentIndex < SegmentCount

\* ---------------------------------------------------------------- C39

\* C39: the engine is never playing and paused at once: isPlaying and
\* isPaused are not both true, also when pause() is called while a play
\* request of play() or of a queue hand-over has not yet completed.
C39_NotPlayingAndPaused == ~(state.isPlaying /\ state.isPaused)

\* ---------------------------------------------------------------- C40

\* The current segment moves on by one segment at a time, or to segment 0
\* when a queued playlist is activated.
InIndexOrder ==
  state'.currentSegmentIndex # state.currentSegmentIndex =>
    \/ state'.currentSegmentIndex = state.currentSegmentIndex + 1
    \/ "currentPlaylist" \in DOMAIN pending /\ state'.currentSegmentIndex = 0

\* The last segment of an active playlist p becomes the current one.
ReachesLastSegment(p) ==
  (state.currentPlaylist = p) ~>
    (state.currentPlaylist = p
       /\ state.currentSegmentIndex = Len(Entries(p)) - 1)

\* Playback is over: the engine is not playing and nothing is queued.
PlaybackOver == ~state.isPlaying /\ state.queue = << >>

\* C40: a playlist loaded with autoPlay and left alone, with no load error
\* and no refused play request, plays to its end: the segments become
\* current in increasing order up to the last one, every queued playlist is
\* activated, and in the end the engine is not playing and the queue is
\* empty.
C40_PlaysToEnd ==
  /\ [][InIndexOrder]_vars
  /\ \A p \in PlaylistIds \cup {BoundaryPlaylist} : ReachesLastSegment(p)
  /\ PlaylistLoaded ~> PlaybackOver
====
